---- MODULE Spec2Model ----
(***************************************************************************)
(* SimpleImage2ASCII: image_splitter.py, ascii_matcher.py and main.py as a *)
(* state machine.  One behaviour is one call of a public function on an    *)
(* image file: Init draws the file (or its absence), an action draws the   *)
(* arguments with \E, performs the whole call and records what it returned *)
(* or raised, the I/O it performed (log) and the files it left (disk).     *)
(* A write fails when a directory stands at its path (the obstacle a call  *)
(* draws) and when the tile to encode has no area.  SpecRepeat runs        *)
(* image_to_ascii several times on one file system and keeps the calls in  *)
(* hist; SpecGui runs the render threads of GUI.py over the shared preview *)
(* widget (gui), one widget call per step.                                 *)
(*                                                                         *)
(* Strings are sequences of one-character strings; the characters TLA+     *)
(* cannot spell are the tokens ESC (U+001B), BLOCK (U+2588) and BACKTICK.  *)
(* Density maps hold ink*255 as integers (the code holds ink in [0,1] as   *)
(* float32), so a score is the numerator of the mean squared error over    *)
(* the fixed denominator 255*255*w*h of maps of one shape.                 *)
(*                                                                         *)
(* Pillow is outside the repository.  Its resampling filter is modelled by *)
(* sampling the source pixel at the centre of each output pixel's box in   *)
(* the cover crop that ImageOps.fit computes; its font rasteriser by a     *)
(* fixed coverage table (FontInk).  ImageOps.fit divides the live width by *)
(* the live height, so a tile of height 0 raises ZeroDivisionError; what   *)
(* resize does with the empty box of a tile of width 0 is left open by the *)
(* variable pillow.                                                        *)
(*                                                                         *)
(* The loops over an alphabet run in the code's order; they are written    *)
(* over index ranges split in halves, the first half evaluated before the  *)
(* second, which bounds the depth of TLC's evaluation.                     *)
(***************************************************************************)
EXTENDS Integers, Sequences, FiniteSets, TLC

VARIABLES image, pillow, disk, pc, call, ret, log, hist, gui

vars == <<image, pillow, disk, pc, call, ret, log, hist, gui>>

(* ------------------------------ bounds --------------------------------- *)
MaxW == 3
MaxH == 2
MaxCols == 3
MaxRows == 3
MaxTileW == 1
MaxTileH == 2
MaxTemplates == 2
MaxCalls == 3
MaxRenders == 2

(* ------------------------------ values --------------------------------- *)
\* An optional value: None, or Some(v).
None == <<>>
Some(v) == <<v>>
ESC == "ESC"
BLOCK == "BLOCK"
BACKTICK == "BACKTICK"
NL == "\n"

Ok(v, l, d) == [kind |-> "ok", val |-> v, log |-> l, disk |-> d]
Raise(e, l, d) == [kind |-> "raise", exc |-> e, log |-> l, disk |-> d]

Max(a, b) == IF a >= b THEN a ELSE b
Min(a, b) == IF a <= b THEN a ELSE b

RECURSIVE SumSeq(_)
SumSeq(s) == IF s = <<>> THEN 0 ELSE Head(s) + SumSeq(Tail(s))

RECURSIVE Flatten(_)
Flatten(ss) == IF ss = <<>> THEN <<>> ELSE Head(ss) \o Flatten(Tail(ss))

(* ------------------------------ images --------------------------------- *)
\* The colours the source images are painted with.
Palette == << <<0, 0, 0>>, <<255, 255, 255>>, <<255, 0, 0>>, <<160, 160, 160>> >>

\* An image of w x h pixels: px[y][x], 1-based, each an RGB triple.
Picture(w, h, a, b, c) ==
  [w |-> w, h |-> h,
   px |-> [y \in 1..h |-> [x \in 1..w |->
            Palette[((a * (x - 1) + b * (y - 1) + c) % Len(Palette)) + 1]]]]

\* The source images: a mixed one of every size, and one of a single colour.
Pictures ==
  { Picture(w, h, 1, 2, 1) : w \in 1..MaxW, h \in 1..MaxH }
    \cup { Picture(MaxW, MaxH, 0, 0, 3) }

\* Image.crop((x0, y0, x1, y1)): the pixels of the box, possibly none.
Crop(im, x0, y0, x1, y1) ==
  [w |-> x1 - x0, h |-> y1 - y0,
   px |-> [y \in 1..(y1 - y0) |-> [x \in 1..(x1 - x0) |-> im.px[y0 + y][x0 + x]]]]

(* --------------------------- image_splitter ---------------------------- *)
OUT_DIR == <<".", "/", "o", "u", "t", "p", "u", "t", "_", "t", "i", "l", "e", "s">>

Digit(n) == <<"0", "1", "2", "3", "4", "5", "6", "7", "8", "9">>[n + 1]

\* str(n) of a non-negative int, as f-strings format it.
RECURSIVE Dec(_)
Dec(n) == IF n < 10 THEN <<Digit(n)>> ELSE Dec(n \div 10) \o <<Digit(n % 10)>>

\* f"{base_name}_r{r+1}c{c+1}.png" joined to out_dir.
TilePath(out_dir, r, c) ==
  out_dir \o <<"/">> \o <<"t", "i", "l", "e">> \o <<"_", "r">> \o Dec(r + 1)
    \o <<"c">> \o Dec(c + 1) \o <<".", "p", "n", "g">>

\* A file written (or overwritten) at path.
WriteFile(d, path, data) ==
  { f \in d : f.path # path } \cup { [path |-> path, data |-> data] }

\* What stands at a path: an encoded image, a text, or a directory, where no
\* file can be written.
Png(im) == [png |-> im]
Text(t) == [txt |-> t]
DIR == [dir |-> TRUE]
Blocked(d, path) == \E f \in d : f.path = path /\ f.data = DIR

\* A faulty loop that passes over a tile whose save raised and goes on with
\* the next: the variant against which C13 is tested.
RECURSIVE SaveCellsSkipFailed(_, _, _, _, _)
SaveCellsSkipFailed(cells, out_dir, paths, l, d) ==
  IF cells = <<>> THEN Ok(paths, l, d)
  ELSE LET cell == Head(cells)
           path == TilePath(out_dir, cell.row, cell.col)
       IN IF Blocked(d, path) \/ cell.image.w = 0 \/ cell.image.h = 0
          THEN SaveCellsSkipFailed(Tail(cells), out_dir, paths,
                                   Append(l, <<"save_failed", path>>), d)
          ELSE SaveCellsSkipFailed(Tail(cells), out_dir, Append(paths, path),
                                   Append(l, <<"save", path>>),
                                   WriteFile(d, path, Png(cell.image)))

\* save_image_grid: makedirs, then img.save per cell in row-major order; the
\* first save that raises ends the call.  Pillow's encoder rejects an image
\* without pixels (SystemError); a path that cannot be written raises OSError.
RECURSIVE SaveCells(_, _, _, _, _)
SaveCells(cells, out_dir, paths, l, d) ==
  IF cells = <<>> THEN Ok(paths, l, d)
  ELSE LET cell == Head(cells)
           path == TilePath(out_dir, cell.row, cell.col)
       IN IF Blocked(d, path)
          THEN Raise("IsADirectoryError", Append(l, <<"save_failed", path>>), d)
          ELSE IF cell.image.w = 0 \/ cell.image.h = 0
          THEN Raise("SystemError", Append(l, <<"save_failed", path>>), d)
          ELSE SaveCells(Tail(cells), out_dir, Append(paths, path),
                         Append(l, <<"save", path>>),
                         WriteFile(d, path, Png(cell.image)))

save_image_grid(grid, out_dir, l, d) ==
  SaveCells(Flatten(grid), out_dir, <<>>, Append(l, <<"makedirs", out_dir>>), d)

\* A faulty inner loop that gives every column col_base pixels and drops the
\* remainder: the variant against which C1 is tested.
RECURSIVE SplitRowNoRemainder(_, _, _, _, _, _, _)
SplitRowNoRemainder(im, columns, r, y, h_r, c, x) ==
  IF c >= columns THEN <<>>
  ELSE LET w_c == im.w \div columns
           cell == [image |-> Crop(im, x, y, x + w_c, y + h_r),
                    box |-> <<x, y, w_c, h_r>>, row |-> r, col |-> c]
       IN <<cell>> \o SplitRowNoRemainder(im, columns, r, y, h_r, c + 1, x + w_c)

\* The inner loop of split_grid_from_path: columns c.. of row r, cursor at x.
RECURSIVE SplitRow(_, _, _, _, _, _, _)
SplitRow(im, columns, r, y, h_r, c, x) ==
  IF c >= columns THEN <<>>
  ELSE LET col_base == im.w \div columns
           col_rem == im.w % columns
           w_c == col_base + (IF c < col_rem THEN 1 ELSE 0)
           cell == [image |-> Crop(im, x, y, x + w_c, y + h_r),
                    box |-> <<x, y, w_c, h_r>>, row |-> r, col |-> c]
       IN <<cell>> \o SplitRow(im, columns, r, y, h_r, c + 1, x + w_c)

\* A faulty outer loop that gives the remainder's rows to the last bands:
\* the variant against which C15 is tested.
RECURSIVE SplitRowsRemainderLast(_, _, _, _, _)
SplitRowsRemainderLast(im, columns, rows, r, y) ==
  IF r >= rows THEN <<>>
  ELSE LET row_base == im.h \div rows
           row_rem == im.h % rows
           h_r == row_base + (IF r >= rows - row_rem THEN 1 ELSE 0)
       IN <<SplitRow(im, columns, r, y, h_r, 0, 0)>>
            \o SplitRowsRemainderLast(im, columns, rows, r + 1, y + h_r)

\* The outer loop: rows r.., cursor at y.
RECURSIVE SplitRows(_, _, _, _, _)
SplitRows(im, columns, rows, r, y) ==
  IF r >= rows THEN <<>>
  ELSE LET row_base == im.h \div rows
           row_rem == im.h % rows
           h_r == row_base + (IF r < row_rem THEN 1 ELSE 0)
       IN <<SplitRow(im, columns, r, y, h_r, 0, 0)>>
            \o SplitRows(im, columns, rows, r + 1, y + h_r)

CropLog(grid) == [i \in 1..Len(Flatten(grid)) |->
                   <<"crop", Flatten(grid)[i].row, Flatten(grid)[i].col>>]

Exported(grid, s) == IF s.kind = "raise" THEN s ELSE Ok(grid, s.log, s.disk)

\* The end of split_grid_from_path: the optional export, then the return.
ExportAndReturn(grid, save_image, l, d) ==
  IF save_image THEN Exported(grid, save_image_grid(grid, OUT_DIR, l, d))
  ELSE Ok(grid, l, d)

Cropped(grid, save_image, l, d) ==
  ExportAndReturn(grid, save_image, l \o CropLog(grid), d)

split_grid_from_path(file, columns, rows, save_image, l, d) ==
  IF columns < 1 \/ rows < 1 THEN Raise("ValueError", l, d)
  ELSE IF ~file.exists THEN Raise("FileNotFoundError", Append(l, <<"exists">>), d)
  ELSE Cropped(SplitRows(file.im, columns, rows, 0, 0), save_image,
               l \o << <<"exists">>, <<"open">> >>, d)

(* ---------------------------- ascii_matcher ---------------------------- *)
LESS == 1
MORE == 0

DEFAULT_CHARSET_LESS == <<"@", "%", "#", "*", "+", "=", "-", ":", ".", " ">>
DEFAULT_CHARSET_MORE ==
  <<"@", "#", "W", "M", "B", "8", "&", "%", "$", "?", "*", "o", "a", "h", "k",
    "b", "d", "p", "q", "w", "m", "Z", "O", "0", "Q", "C", "L", "J", "U", "Y",
    "X", "z", "c", "v", "u", "n", "x", "r", "j", "f", "t", "/", "\\", "|", "(",
    ")", "1", "{", "}", "[", "]", "?", "-", "_", "+", "~", "<", ">", "i", "!",
    "l", "I", ";", ":", ",", "\"", "^", BACKTICK, "'", ".", " ">>

\* Image.convert("L") of one RGB pixel (Pillow's ITU-R 601-2 luma, fixed point).
Luma(rgb) == (19595 * rgb[1] + 38470 * rgb[2] + 7471 * rgb[3] + 32768) \div 65536

\* Image.convert(mode): "L" maps every pixel to its luma, "RGB" keeps it.
Convert(im, mode) ==
  IF mode = "L"
  THEN [w |-> im.w, h |-> im.h,
        px |-> [y \in 1..im.h |-> [x \in 1..im.w |-> Luma(im.px[y][x])]]]
  ELSE im

\* ImageOps.fit(im, size, LANCZOS): cover-crop to the output ratio about the
\* centre, then resize.  zero is the pixel an empty source box yields.
Fit(im, size, zero) ==
  LET tw == size[1]
      th == size[2]
      wide == im.w * th >= tw * im.h
      sx(i) == IF wide THEN (im.w * th - tw * im.h + (2 * i - 1) * im.h) \div (2 * th)
               ELSE ((2 * i - 1) * im.w) \div (2 * tw)
      sy(j) == IF wide THEN ((2 * j - 1) * im.h) \div (2 * th)
               ELSE (im.h * tw - im.w * th + (2 * j - 1) * im.w) \div (2 * tw)
  IN IF im.h = 0 \/ th = 0 THEN [kind |-> "raise", exc |-> "ZeroDivisionError"]
     ELSE IF tw < 1 THEN [kind |-> "raise", exc |-> "ValueError"]
     ELSE IF im.w = 0
     THEN IF pillow = "raise" THEN [kind |-> "raise", exc |-> "ValueError"]
          ELSE [kind |-> "ok",
                val |-> [w |-> tw, h |-> th,
                         px |-> [j \in 1..th |-> [i \in 1..tw |-> zero]]]]
     ELSE [kind |-> "ok",
           val |-> [w |-> tw, h |-> th,
                    px |-> [j \in 1..th |-> [i \in 1..tw |->
                             im.px[sy(j) + 1][sx(i) + 1]]]]]

\* A density map: shape (h, w) and ink*255 per pixel.
Array(h, w, a) == [shape |-> <<h, w>>, a |-> a]

\* arr = 1.0 - asarray(im) / 255.0, of the fitted image if there is one.
ToInk(im) ==
  IF im.kind = "raise" THEN im
  ELSE [kind |-> "ok",
        val |-> Array(im.val.h, im.val.w,
                      [y \in 1..im.val.h |-> [x \in 1..im.val.w |->
                        255 - im.val.px[y][x]]])]

_image_to_array(img, size) == ToInk(Fit(Convert(img, "L"), size, 0))

\* The ink the rasterised glyph leaves on each pixel of its canvas (the font).
FontInk(ch) ==
  IF ch = " " THEN 0
  ELSE IF ch \in {"@", "#", "W", "M", "B", "8", "&", "%", "$"} THEN 192
  ELSE IF ch \in {".", ",", "'", BACKTICK, ":", ";", "-", "_", "^", "\"", "~"} THEN 32
  ELSE 96

render_char_template(ch, size) ==
  Array(size[2], size[1], [y \in 1..size[2] |-> [x \in 1..size[1] |-> FontInk(ch)]])

\* A dict is the sequence of its items in insertion order; d[k] = v keeps the
\* place of a key that is already there.
DictKeys(d) == { d[i].key : i \in 1..Len(d) }

DictSet(d, k, v) ==
  IF k \in DictKeys(d)
  THEN [i \in 1..Len(d) |-> IF d[i].key = k THEN [key |-> k, val |-> v] ELSE d[i]]
  ELSE Append(d, [key |-> k, val |-> v])

\* The loop of build_char_templates over chars[lo..hi], templates so far.
RECURSIVE RenderAll(_, _, _, _, _)
RenderAll(chars, lo, hi, tile_size, templates) ==
  IF lo > hi THEN templates
  ELSE IF lo = hi
  THEN DictSet(templates, chars[lo], render_char_template(chars[lo], tile_size))
  ELSE LET mid == (lo + hi) \div 2
           left == RenderAll(chars, lo, mid, tile_size, templates)
       IN IF left = left THEN RenderAll(chars, mid + 1, hi, tile_size, left)
          ELSE left

\* chars stays unbound when chars_index is neither MORE nor LESS.
CharsOf(chars_index) ==
  IF chars_index = MORE THEN Some(DEFAULT_CHARSET_MORE)
  ELSE IF chars_index = LESS THEN Some(DEFAULT_CHARSET_LESS)
  ELSE None

TileSizes == (1..MaxTileW) \X (1..MaxTileH)

\* The dict the loop builds, per alphabet and tile size (evaluated once).
Rendered ==
  [chars_index \in {LESS, MORE}, tile_size \in TileSizes |->
    RenderAll(CharsOf(chars_index)[1], 1, Len(CharsOf(chars_index)[1]),
              tile_size, <<>>)]

build_char_templates(chars_index, tile_size, l, d) ==
  LET chars == CharsOf(chars_index)
      l1 == Append(l, <<"build_char_templates", chars_index>>)
  IN IF chars = None THEN Raise("UnboundLocalError", l1, d)
     ELSE Ok(Rendered[chars_index, tile_size], l1, d)

\* Scores: a finite mean squared error, or float("inf").
Inf == [fin |-> FALSE, num |-> 0]
Score(n) == [fin |-> TRUE, num |-> n]
ScoreLess(a, b) == a.fin /\ (~b.fin \/ a.num < b.num)

\* (diff * diff).mean() of two maps of one shape.
MSE(x, y) ==
  Score(SumSeq([i \in 1..(x.shape[1] * x.shape[2]) |->
    LET r == ((i - 1) \div x.shape[2]) + 1
        c == ((i - 1) % x.shape[2]) + 1
    IN (x.a[r][c] - y.a[r][c]) * (x.a[r][c] - y.a[r][c])]))

\* A faulty loop body that keeps the first template of the tile's shape
\* whatever its score: the variant against which C6 is tested.
MatchStepFirstFit(item, tile_arr, best) ==
  IF item.val.shape # tile_arr.shape THEN best
  ELSE IF best.ch = None
       THEN [ch |-> Some(item.key), score |-> MSE(tile_arr, item.val)]
       ELSE best

\* A faulty loop body that compares with <= , so that the last of several
\* equal scores wins: the variant against which C7 is tested.
MatchStepLastTie(item, tile_arr, best) ==
  IF item.val.shape # tile_arr.shape THEN best
  ELSE LET score == MSE(tile_arr, item.val)
       IN IF ~ScoreLess(best.score, score)
          THEN [ch |-> Some(item.key), score |-> score]
          ELSE best

\* The body of the loop of match_tile_to_char, for one item of the dict.
MatchStep(item, tile_arr, best) ==
  IF item.val.shape # tile_arr.shape THEN best
  ELSE LET score == MSE(tile_arr, item.val)
       IN IF ScoreLess(score, best.score)
          THEN [ch |-> Some(item.key), score |-> score]
          ELSE best

\* The loop over templates.items(), items lo..hi, best so far.
RECURSIVE BestMatch(_, _, _, _, _)
BestMatch(items, lo, hi, tile_arr, best) ==
  IF lo > hi THEN best
  ELSE IF lo = hi THEN MatchStep(items[lo], tile_arr, best)
  ELSE LET mid == (lo + hi) \div 2
           left == BestMatch(items, lo, mid, tile_arr, best)
       IN IF left = left THEN BestMatch(items, mid + 1, hi, tile_arr, left)
          ELSE left

\* The end of match_tile_to_char: the character for the best match.
Chosen(best, replace_dot_with_block) ==
  [kind |-> "ok",
   val |-> <<IF best.ch = None THEN " "
             ELSE IF replace_dot_with_block /\ best.ch[1] = "." THEN BLOCK
             ELSE best.ch[1],
             best.score>>]

MatchArray(arr, templates, replace_dot_with_block) ==
  IF arr.kind = "raise" THEN arr
  ELSE Chosen(BestMatch(templates, 1, Len(templates), arr.val,
                        [ch |-> None, score |-> Inf]),
              replace_dot_with_block)

match_tile_to_char(tile, templates, size, replace_dot_with_block) ==
  MatchArray(_image_to_array(tile, size), templates, replace_dot_with_block)

\* The first element of results that raised, in order, if any.
FirstRaise(results) ==
  LET bad == { i \in 1..Len(results) : results[i].kind = "raise" }
  IN IF bad = {} THEN None
     ELSE Some(results[CHOOSE i \in bad : \A j \in bad : i <= j])

\* A faulty collection that joins the cells of each row from the last column
\* to the first: the variant against which C9 is tested.
CollectedMirrored(res, bad, l, d) ==
  IF bad # None THEN Raise(bad[1].exc, l, d)
  ELSE Ok([r \in 1..Len(res) |->
            Flatten([c \in 1..Len(res[r]) |-> res[r][Len(res[r]) + 1 - c].val])],
          l, d)

\* The lines of a grid of cell results: "".join per row, unless a cell raised.
Collected(res, bad, l, d) ==
  IF bad # None THEN Raise(bad[1].exc, l, d)
  ELSE Ok([r \in 1..Len(res) |-> Flatten([c \in 1..Len(res[r]) |-> res[r][c].val])],
          l, d)

Collect(res, l, d) == Collected(res, FirstRaise(Flatten(res)), l, d)

MonoCell(m) ==
  IF m.kind = "raise" THEN m ELSE [kind |-> "ok", val |-> <<m.val[1]>>]

\* The two nested loops: one cell per tile in row-major order; the first cell
\* to raise ends the call.
grid_to_ascii_monochrome(grid, templates, tile_size, l, d) ==
  Collect([r \in 1..Len(grid) |-> [c \in 1..Len(grid[r]) |->
            MonoCell(match_tile_to_char(grid[r][c].image, templates, tile_size,
                                        FALSE))]],
          l, d)

\* tiny.getpixel((0, 0)) of the fitted 1x1 image if there is one.
GetPixel(tiny) ==
  IF tiny.kind = "raise" THEN tiny
  ELSE [kind |-> "ok", val |-> tiny.val.px[1][1]]

_avg_tile_color(tile) ==
  GetPixel(Fit(Convert(tile, "RGB"), <<1, 1>>, <<0, 0, 0>>))

_ansi_fg_truecolor(r, g, b) ==
  <<ESC, "[", "3", "8", ";", "2", ";">> \o Dec(r) \o <<";">> \o Dec(g)
    \o <<";">> \o Dec(b) \o <<"m">>

_ansi_bg_truecolor(r, g, b) ==
  <<ESC, "[", "4", "8", ";", "2", ";">> \o Dec(r) \o <<";">> \o Dec(g)
    \o <<";">> \o Dec(b) \o <<"m">>

RESET == <<ESC, "[", "0", "m">>

\* A faulty cell that leaves the reset out after a background cell: the
\* variant against which C10 is tested.
ColorCellBare(m, rgb, use_background, use_block, reset) ==
  IF m.kind = "raise" THEN m
  ELSE IF rgb.kind = "raise" THEN rgb
  ELSE IF use_background
  THEN [kind |-> "ok",
        val |-> _ansi_bg_truecolor(rgb.val[1], rgb.val[2], rgb.val[3])
                  \o <<IF use_block THEN BLOCK ELSE " ">>]
  ELSE [kind |-> "ok",
        val |-> _ansi_fg_truecolor(rgb.val[1], rgb.val[2], rgb.val[3])
                  \o <<IF use_block THEN BLOCK ELSE m.val[1]>> \o reset]

\* A faulty body that draws a blank in the foreground colour instead of the
\* matched character: the variant against which C17 is tested.
ColorCellBlank(m, rgb, use_background, use_block, reset) ==
  IF m.kind = "raise" THEN m
  ELSE IF rgb.kind = "raise" THEN rgb
  ELSE IF use_background
  THEN [kind |-> "ok",
        val |-> _ansi_bg_truecolor(rgb.val[1], rgb.val[2], rgb.val[3])
                  \o <<IF use_block THEN BLOCK ELSE " ">> \o reset]
  ELSE [kind |-> "ok",
        val |-> _ansi_fg_truecolor(rgb.val[1], rgb.val[2], rgb.val[3])
                  \o <<IF use_block THEN BLOCK ELSE " ">> \o reset]

\* The body of the inner loop of grid_to_ascii_color, after the two calls.
ColorCell(m, rgb, use_background, use_block, reset) ==
  IF m.kind = "raise" THEN m
  ELSE IF rgb.kind = "raise" THEN rgb
  ELSE IF use_background
  THEN [kind |-> "ok",
        val |-> _ansi_bg_truecolor(rgb.val[1], rgb.val[2], rgb.val[3])
                  \o <<IF use_block THEN BLOCK ELSE " ">> \o reset]
  ELSE [kind |-> "ok",
        val |-> _ansi_fg_truecolor(rgb.val[1], rgb.val[2], rgb.val[3])
                  \o <<IF use_block THEN BLOCK ELSE m.val[1]>> \o reset]

grid_to_ascii_color(grid, templates, tile_size, use_background, use_block, reset, l, d) ==
  Collect([r \in 1..Len(grid) |-> [c \in 1..Len(grid[r]) |->
            ColorCell(match_tile_to_char(grid[r][c].image, templates, tile_size,
                                         FALSE),
                      _avg_tile_color(grid[r][c].image),
                      use_background, use_block, reset)]],
          l, d)

(* -------------------------------- main --------------------------------- *)
\* int(round(n / d)) for d > 0: Python rounds a half to the even neighbour.
PyRound(n, d) ==
  LET q == n \div d
      rem == n % d
  IN IF 2 * rem < d THEN q
     ELSE IF 2 * rem > d THEN q + 1
     ELSE IF q % 2 = 0 THEN q ELSE q + 1

\* sep.join(lines)
RECURSIVE Join(_, _)
Join(sep, lines) ==
  IF lines = <<>> THEN <<>>
  ELSE IF Len(lines) = 1 THEN lines[1]
  ELSE lines[1] \o sep \o Join(sep, Tail(lines))

\* A faulty computation that leaves the rounded quotient as it is, without
\* the minimum of 1: the variant against which C11 is tested.
RowsForUnclamped(im, lock_aspect, cols, rows, tile_size) ==
  IF lock_aspect
  THEN PyRound(im.h * cols * tile_size[1], im.w * tile_size[2])
  ELSE IF rows = None THEN cols ELSE rows[1]

\* The rows image_to_ascii passes to the splitter.
RowsFor(im, lock_aspect, cols, rows, tile_size) ==
  IF lock_aspect
  THEN Max(1, PyRound(im.h * cols * tile_size[1], im.w * tile_size[2]))
  ELSE IF rows = None THEN cols ELSE rows[1]

\* A faulty end that appends to the text file a former call left and returns
\* the whole file: the variant against which C14 is tested.
WriteTextAppended(text, out_txt_path, l, d) ==
  IF out_txt_path # None /\ out_txt_path[1] # <<>>
  THEN IF \E f \in d : f.path = out_txt_path[1]
       THEN Ok((CHOOSE f \in d : f.path = out_txt_path[1]).data.txt \o text,
               Append(l, <<"write", out_txt_path[1]>>),
               WriteFile(d, out_txt_path[1],
                         Text((CHOOSE f \in d : f.path = out_txt_path[1]).data.txt
                                \o text)))
       ELSE Ok(text, Append(l, <<"write", out_txt_path[1]>>),
               WriteFile(d, out_txt_path[1], Text(text)))
  ELSE Ok(text, l, d)

\* The end of image_to_ascii: the optional text file, then the return.
WriteText(text, out_txt_path, l, d) ==
  IF out_txt_path # None /\ out_txt_path[1] # <<>>
  THEN IF Blocked(d, out_txt_path[1])
       THEN Raise("IsADirectoryError",
                  Append(l, <<"write_failed", out_txt_path[1]>>), d)
       ELSE Ok(text, Append(l, <<"write", out_txt_path[1]>>),
               WriteFile(d, out_txt_path[1], Text(text)))
  ELSE Ok(text, l, d)

AfterLines(a, out_txt_path) ==
  IF a.kind = "raise" THEN a
  ELSE WriteText(Join(<<NL>>, a.val), out_txt_path, a.log, a.disk)

AfterBuild(grid, t, color, out_txt_path, tile_size) ==
  IF t.kind = "raise" THEN t
  ELSE AfterLines(IF color
                  THEN grid_to_ascii_color(grid, t.val, tile_size, FALSE, FALSE,
                                           RESET, t.log, t.disk)
                  ELSE grid_to_ascii_monochrome(grid, t.val, tile_size,
                                                t.log, t.disk),
                  out_txt_path)

AfterSplit(g, color, out_txt_path, tile_size, chars_index) ==
  IF g.kind = "raise" THEN g
  ELSE AfterBuild(g.val, build_char_templates(chars_index, tile_size, g.log, g.disk),
                  color, out_txt_path, tile_size)

image_to_ascii(file, lock_aspect, cols, rows, color, export_tiles, out_txt_path, tile_size, chars_index, l, d) ==
  IF ~file.exists THEN Raise("FileNotFoundError", Append(l, <<"exists">>), d)
  ELSE AfterSplit(
         split_grid_from_path(file, cols,
           RowsFor(file.im, lock_aspect, cols, rows, tile_size), export_tiles,
           IF lock_aspect THEN l \o << <<"exists">>, <<"open">> >>
           ELSE Append(l, <<"exists">>), d),
         color, out_txt_path, tile_size, chars_index)

(* ------------------------------ machine -------------------------------- *)
Files == { [exists |-> TRUE, im |-> p] : p \in Pictures }
           \cup { [exists |-> FALSE, im |-> None] }

Init ==
  /\ image \in Files
  /\ pillow \in {"raise", "zeros"}
  /\ disk = {}
  /\ pc = "idle"
  /\ call = None
  /\ ret = None
  /\ log = <<>>
  /\ hist = <<>>
  /\ gui = None

\* What the caller of a finished call sees: the value returned or the
\* exception raised.
Outcome(r) ==
  IF r.kind = "ok" THEN [kind |-> "ok", val |-> r.val]
  ELSE [kind |-> "raise", exc |-> r.exc]

Finish(c, r) ==
  /\ pc' = "done"
  /\ call' = c
  /\ ret' = Outcome(r)
  /\ log' = r.log
  /\ disk' = r.disk
  /\ UNCHANGED <<image, pillow, hist, gui>>

\* The paths at which a directory may stand in the way of a write, if any:
\* those of the first tiles when tiles are exported, that of the text file
\* when one is asked for.
Obstacles(export_tiles, out_txt_path) ==
  {None}
    \cup (IF export_tiles
          THEN { Some(TilePath(OUT_DIR, 0, c)) : c \in 0..1 } ELSE {})
    \cup (IF out_txt_path # None THEN {out_txt_path} ELSE {})

\* The disk with a directory at the obstacle's path.
Obstructed(d, obstacle) ==
  IF obstacle = None THEN d ELSE WriteFile(d, obstacle[1], DIR)

CallSplitGrid ==
  /\ pc = "idle"
  /\ \E columns \in 0..MaxCols, rows \in 0..MaxRows, save_image \in BOOLEAN :
     \E obstacle \in Obstacles(save_image, None) :
       Finish([op |-> "split_grid_from_path", columns |-> columns, rows |-> rows,
               save_image |-> save_image, obstacle |-> obstacle],
              split_grid_from_path(image, columns, rows, save_image, <<>>,
                                   Obstructed(disk, obstacle)))

\* A tile as the callers of the matcher pass it: a crop of the image.
Tiles ==
  IF image.exists
  THEN { Crop(image.im, 0, 0, w, h) : w \in {0, image.im.w}, h \in {0, image.im.h} }
  ELSE {}

\* Template dicts a caller may build: any maps of any shapes, in any order.
Maps ==
  { Array(s[2], s[1], [y \in 1..s[2] |-> [x \in 1..s[1] |-> v]]) :
      s \in TileSizes, v \in {0, 255} }

RECURSIVE DictsOver(_, _)
DictsOver(keys, n) ==
  IF n = 0 THEN { <<>> }
  ELSE LET shorter == DictsOver(keys, n - 1)
       IN shorter \cup
          { Append(d, [key |-> k, val |-> m]) :
              d \in { e \in shorter : Len(e) = n - 1 }, k \in keys, m \in Maps }

Dicts == { d \in DictsOver({"@", ".", " "}, MaxTemplates) :
             Cardinality(DictKeys(d)) = Len(d) }

CallBuildTemplates ==
  /\ pc = "idle"
  /\ \E chars_index \in {-1, 0, 1}, tile_size \in TileSizes :
    Finish([op |-> "build_char_templates", chars_index |-> chars_index,
            tile_size |-> tile_size],
           build_char_templates(chars_index, tile_size, <<>>, disk))

CallMatch ==
  /\ pc = "idle"
  /\ \E tile \in Tiles, templates \in Dicts, size \in TileSizes, flag \in BOOLEAN :
    Finish([op |-> "match_tile_to_char", tile |-> tile, templates |-> templates,
            size |-> size, replace_dot_with_block |-> flag],
           match_tile_to_char(tile, templates, size, flag)
             @@ [log |-> <<>>, disk |-> disk])

\* The grid the grid_to_ascii_* callers pass: a split of the image.
Grids ==
  IF image.exists
  THEN { SplitRows(image.im, columns, rows, 0, 0) :
           columns \in 1..MaxCols, rows \in 1..MaxRows }
  ELSE {}

CallGridToAsciiMonochrome ==
  /\ pc = "idle"
  /\ \E grid \in Grids, chars_index \in {LESS, MORE}, tile_size \in TileSizes :
       Finish([op |-> "grid_to_ascii_monochrome", grid |-> grid,
               chars_index |-> chars_index, tile_size |-> tile_size],
              grid_to_ascii_monochrome(grid,
                build_char_templates(chars_index, tile_size, <<>>, disk).val,
                tile_size, <<>>, disk))

CallGridToAsciiColor ==
  /\ pc = "idle"
  /\ \E grid \in Grids, tile_size \in TileSizes,
        use_background \in BOOLEAN, use_block \in BOOLEAN,
        reset \in {RESET, <<>>} :
       Finish([op |-> "grid_to_ascii_color", grid |-> grid,
               chars_index |-> LESS, tile_size |-> tile_size,
               use_background |-> use_background, use_block |-> use_block,
               reset |-> reset],
              grid_to_ascii_color(grid,
                build_char_templates(LESS, tile_size, <<>>, disk).val,
                tile_size, use_background, use_block, reset, <<>>, disk))

CallAnsi ==
  /\ pc = "idle"
  /\ \E rgb \in { Palette[i] : i \in 1..Len(Palette) }, fg \in BOOLEAN :
       Finish([op |-> IF fg THEN "_ansi_fg_truecolor" ELSE "_ansi_bg_truecolor",
               rgb |-> rgb],
              Ok(IF fg THEN _ansi_fg_truecolor(rgb[1], rgb[2], rgb[3])
                 ELSE _ansi_bg_truecolor(rgb[1], rgb[2], rgb[3]), <<>>, disk))

\* The sizes, columns and tile sizes the rows of a render are computed for:
\* the small ones, and those of a 200 x 100 image at 80 columns of 8 x 16.
Sizes == ((1..MaxW) \X (1..MaxH)) \cup { <<200, 100>> }
Columns == (-1..MaxCols) \cup {80}

\* The computation of rows in image_to_ascii and in the render of the GUI:
\* the shape (rows, cols) of the grid that is asked of the splitter.
CallAspectRows ==
  /\ pc = "idle"
  /\ \E size \in Sizes, lock_aspect \in BOOLEAN, cols \in Columns,
        rows \in {None, Some(2)}, tile_size \in TileSizes \cup { <<8, 16>> } :
       Finish([op |-> "rows", w |-> size[1], h |-> size[2],
               lock_aspect |-> lock_aspect, cols |-> cols, rows |-> rows,
               tile_size |-> tile_size],
              Ok(<<RowsFor([w |-> size[1], h |-> size[2]], lock_aspect, cols,
                           rows, tile_size), cols>>, <<>>, disk))

OUT_TXT == <<"o", "u", "t", ".", "t", "x", "t">>

CallImageToAscii ==
  /\ pc = "idle"
  /\ \E lock_aspect \in BOOLEAN, cols \in 0..MaxCols,
        rows \in {None} \cup { Some(n) : n \in 0..MaxRows },
        color \in BOOLEAN, export_tiles \in BOOLEAN,
        out_txt_path \in {None, Some(OUT_TXT)},
        tile_size \in TileSizes, chars_index \in {-1, 0, 1} :
     \E obstacle \in Obstacles(export_tiles, out_txt_path) :
       Finish([op |-> "image_to_ascii", lock_aspect |-> lock_aspect,
               cols |-> cols, rows |-> rows, color |-> color,
               export_tiles |-> export_tiles, out_txt_path |-> out_txt_path,
               tile_size |-> tile_size, chars_index |-> chars_index,
               obstacle |-> obstacle],
              image_to_ascii(image, lock_aspect, cols, rows, color, export_tiles,
                             out_txt_path, tile_size, chars_index, <<>>,
                             Obstructed(disk, obstacle)))

Next ==
  \/ CallSplitGrid
  \/ CallBuildTemplates
  \/ CallMatch
  \/ CallGridToAsciiMonochrome
  \/ CallGridToAsciiColor
  \/ CallAnsi
  \/ CallAspectRows
  \/ CallImageToAscii

Spec == Init /\ [][Next]_vars

(* ------------------------ repeated conversions ------------------------- *)
\* One process converts again and again: the files a call writes are there
\* when the next one runs, and hist keeps, for every call, its arguments,
\* the image its path held and what it returned or raised.
IN_PNG == <<"i", "n", "p", "u", "t", ".", "p", "n", "g">>

\* os.path.exists(image_path) and Image.open(image_path): the image the path
\* holds, if any.
FileAt(d, path) ==
  IF \E f \in d : f.path = path
  THEN [exists |-> TRUE, im |-> (CHOOSE f \in d : f.path = path).data.png]
  ELSE [exists |-> FALSE, im |-> None]

\* The arguments of the repeated calls: the image is the input file or the
\* first tile an export leaves.
RepeatConfigs ==
  [image_path : {IN_PNG, TilePath(OUT_DIR, 0, 0)}, cols : 1..2,
   export_tiles : BOOLEAN, out_txt_path : {None, Some(OUT_TXT)}]

InitRepeat ==
  /\ image \in { f \in Files : f.exists /\ f.im.w = MaxW /\ f.im.h = MaxH }
  /\ pillow \in {"raise", "zeros"}
  /\ disk = { [path |-> IN_PNG, data |-> Png(image.im)] }
  /\ pc = "idle"
  /\ call = None
  /\ ret = None
  /\ log = <<>>
  /\ hist = <<>>
  /\ gui = None

Returned(c, file, r) ==
  /\ image' = file
  /\ call' = c
  /\ ret' = Outcome(r)
  /\ log' = r.log
  /\ disk' = r.disk
  /\ hist' = Append(hist, [call |-> c, image |-> file, ret |-> Outcome(r)])
  /\ UNCHANGED <<pillow, pc, gui>>

\* image_to_ascii(image_path, cols=cols, export_tiles=..., out_txt_path=...)
\* with 1 x 1 tiles and the LESS alphabet.
Converted(c, file, d) ==
  image_to_ascii(file, FALSE, c.cols, None, FALSE, c.export_tiles,
                 c.out_txt_path, <<1, 1>>, LESS, <<>>, d)

CallRepeated ==
  /\ pc = "idle"
  /\ Len(hist) < MaxCalls
  /\ \E c \in RepeatConfigs :
       Returned(c, FileAt(disk, c.image_path),
                Converted(c, FileAt(disk, c.image_path), disk))

NextRepeat == CallRepeated

SpecRepeat == InitRepeat /\ [][NextRepeat]_vars

(* ------------------------------- the GUI ------------------------------- *)
\* The window: the path and columns fields, the preview Text widget (its
\* state and its characters, each with the render thread that inserted it),
\* the status line, and one entry per render thread started.  Every call of
\* a widget method is one step; the threads' steps interleave freely.
GuiCols == 0..2

InitGui ==
  /\ image \in { f \in Files : f.exists /\ f.im = Picture(MaxW, MaxH, 1, 2, 1) }
  /\ pillow = "raise"
  /\ disk = {}
  /\ pc = "idle"
  /\ call = None
  /\ ret = None
  /\ log = <<>>
  /\ hist = <<>>
  /\ gui = [path |-> IN_PNG, cols |-> 1, state |-> "normal", preview |-> <<>>,
            status |-> "Ready", threads |-> <<>>]

GuiStep(g) == gui' = g /\ UNCHANGED <<image, pillow, disk, pc, call, ret, log, hist>>

\* The user edits the path field: empties it or chooses the image.
SetPath ==
  /\ gui # None
  /\ Len(gui.threads) < MaxRenders
  /\ \E path \in {<<>>, IN_PNG} :
       path # gui.path /\ GuiStep([gui EXCEPT !.path = path])

\* The user moves the columns field.
SetCols ==
  /\ gui # None
  /\ Len(gui.threads) < MaxRenders
  /\ \E cols \in GuiCols :
       cols # gui.cols /\ GuiStep([gui EXCEPT !.cols = cols])

\* start_render: a click on Render starts one more thread running render.
start_render ==
  /\ gui # None
  /\ Len(gui.threads) < MaxRenders
  /\ GuiStep([gui EXCEPT !.threads =
                 Append(@, [pc |-> "enable", todo |-> <<>>, out |-> <<>>])])

\* render, first calls: status.config and preview.configure(state=NORMAL).
RenderEnable(t) ==
  /\ gui.threads[t].pc = "enable"
  /\ GuiStep([gui EXCEPT !.status = "Rendering...", !.state = "normal",
                         !.threads[t].pc = "delete"])

\* preview.delete("1.0", END): a disabled Text widget ignores it.
RenderDelete(t) ==
  /\ gui.threads[t].pc = "delete"
  /\ GuiStep([gui EXCEPT !.preview = IF gui.state = "normal" THEN <<>> ELSE @,
                         !.threads[t].pc = "prepare"])

\* The characters render inserts, line after line, each line followed by
\* "\n": the glyph of every tile of the grid, rows = cols when the rows field
\* holds 0 and the aspect is not locked.
GuiText(file, cols) ==
  AfterSplit(split_grid_from_path(file, cols, cols, FALSE, <<>>, {}),
             FALSE, None, <<1, 1>>, MORE)

\* The end of the preparation: the error box when a call raised, or else the
\* characters to insert.
Prepared(t, r) ==
  IF r.kind = "raise"
  THEN GuiStep([gui EXCEPT !.status = "Error", !.threads[t].pc = "failed"])
  ELSE GuiStep([gui EXCEPT !.threads[t].pc = "insert",
                           !.threads[t].todo = r.val \o <<NL>>,
                           !.threads[t].out = r.val \o <<NL>>])

\* render reads the fields; with no path it shows an error box and returns,
\* otherwise it splits the image and builds the templates.
RenderPrepare(t) ==
  /\ gui.threads[t].pc = "prepare"
  /\ IF gui.path = <<>>
     THEN GuiStep([gui EXCEPT !.threads[t].pc = "returned"])
     ELSE Prepared(t, GuiText(image, gui.cols))

\* preview.insert(END, ch): a disabled Text widget ignores it.
RenderInsert(t) ==
  /\ gui.threads[t].pc = "insert"
  /\ gui.threads[t].todo # <<>>
  /\ GuiStep([gui EXCEPT
               !.preview = IF gui.state = "normal"
                           THEN Append(@, [ch |-> Head(gui.threads[t].todo), by |-> t])
                           ELSE @,
               !.threads[t].todo = Tail(@)])

\* preview.configure(state=DISABLED) and the status line, after the last row.
RenderDisable(t) ==
  /\ gui.threads[t].pc = "insert"
  /\ gui.threads[t].todo = <<>>
  /\ GuiStep([gui EXCEPT !.state = "disabled", !.status = "Rendered",
                         !.threads[t].pc = "rendered"])

render ==
  /\ gui # None
  /\ \E t \in 1..Len(gui.threads) :
       \/ RenderEnable(t)
       \/ RenderDelete(t)
       \/ RenderPrepare(t)
       \/ RenderInsert(t)
       \/ RenderDisable(t)

NextGui ==
  \/ SetPath
  \/ SetCols
  \/ start_render
  \/ render

SpecGui == InitGui /\ [][NextGui]_vars

(* ------------------------------- claims -------------------------------- *)
Done(op) == pc = "done" /\ call.op = op

Keys(templates) == { templates[i].key : i \in 1..Len(templates) }
CharSet(chars) == { chars[i] : i \in 1..Len(chars) }

\* The pixels a box (x, y, width, height) holds.
BoxPixels(b) ==
  { <<x, y>> : x \in b[1]..(b[1] + b[3] - 1), y \in b[2]..(b[2] + b[4] - 1) }

\* C1: for an image of W x H and columns >= 1, rows >= 1, split_grid_from_path
\* (which always returns when it saves no tile) returns rows rows of columns
\* tiles; in every row the widths sum to W, in every column the heights sum
\* to H, every tile starts where the tiles before it end, no two tiles share
\* a pixel and together they hold every pixel of [0,W) x [0,H).
C1_ExactTiling ==
  (Done("split_grid_from_path") /\ image.exists
     /\ call.columns >= 1 /\ call.rows >= 1) =>
    /\ ~call.save_image => ret.kind = "ok"
    /\ ret.kind = "ok" =>
       LET grid == ret.val
           R == 1..call.rows
           C == 1..call.columns
       IN /\ Len(grid) = call.rows
          /\ \A r \in R : Len(grid[r]) = call.columns
          /\ \A r \in R : SumSeq([c \in C |-> grid[r][c].box[3]]) = image.im.w
          /\ \A c \in C : SumSeq([r \in R |-> grid[r][c].box[4]]) = image.im.h
          /\ \A r \in R, c \in C :
               /\ grid[r][c].box[1] = SumSeq([k \in 1..(c - 1) |-> grid[r][k].box[3]])
               /\ grid[r][c].box[2] = SumSeq([k \in 1..(r - 1) |-> grid[k][c].box[4]])
          /\ \A r1 \in R, c1 \in C, r2 \in R, c2 \in C :
               <<r1, c1>> # <<r2, c2>> =>
                 BoxPixels(grid[r1][c1].box) \cap BoxPixels(grid[r2][c2].box) = {}
          /\ UNION { BoxPixels(grid[r][c].box) : r \in R, c \in C }
               = (0..(image.im.w - 1)) \X (0..(image.im.h - 1))

\* A 3 x 2 image split 2 x 2: the widths are 2 and 1.
C1_Witness ==
  /\ Done("split_grid_from_path") /\ ret.kind = "ok"
  /\ image.im.w = 3 /\ image.im.h = 2 /\ call.columns = 2 /\ call.rows = 2
  /\ ret.val[1][1].box = <<0, 0, 2, 1>> /\ ret.val[2][2].box = <<2, 1, 1, 1>>

\* The rows a call of image_to_ascii uses, and the grid it renders.
UsedRows ==
  RowsFor(image.im, call.lock_aspect, call.cols, call.rows, call.tile_size)
UsedGrid == SplitRows(image.im, call.cols, UsedRows, 0, 0)

\* The glyph the matcher gives an all-background density map.
BackgroundGlyph(templates, size) ==
  MatchArray([kind |-> "ok",
              val |-> Array(size[2], size[1],
                            [y \in 1..size[2] |-> [x \in 1..size[1] |-> 0]])],
             templates, FALSE).val[1]

\* The text of one line: the lines of a text are what "\n" separates.
TextLines(text) ==
  LET nl == { i \in 1..Len(text) : text[i] = NL }
      at(k) == IF k = 0 THEN 0
               ELSE IF k > Cardinality(nl) THEN Len(text) + 1
               ELSE CHOOSE i \in nl : Cardinality({ j \in nl : j < i }) = k - 1
  IN [k \in 1..(Cardinality(nl) + 1) |-> SubSeq(text, at(k - 1) + 1, at(k) - 1)]

\* C2: with columns > W or rows > H (some tiles of width or height 0) a full
\* render of an existing image with a valid alphabet index completes without
\* raising, and every zero-area tile gets the glyph of an all-background map.
C2_ZeroAreaTilesRender ==
  (Done("image_to_ascii") /\ image.exists /\ call.chars_index \in {LESS, MORE}
     /\ call.obstacle = None /\ call.cols >= 1 /\ UsedRows >= 1
     /\ (call.cols > image.im.w \/ UsedRows > image.im.h)) =>
    /\ ret.kind = "ok"
    /\ ~call.color =>
         \A r \in 1..UsedRows, c \in 1..call.cols :
           (UsedGrid[r][c].box[3] = 0 \/ UsedGrid[r][c].box[4] = 0) =>
             TextLines(ret.val)[r][c]
               = BackgroundGlyph(Rendered[call.chars_index, call.tile_size],
                                 call.tile_size)

\* The files that have been written (the directories aside).
Written == { f \in disk : f.data # DIR }

\* The I/O and the work a conversion does once it has started processing.
Processing(l) ==
  \E i \in 1..Len(l) :
    l[i][1] \in {"open", "crop", "makedirs", "save", "build_char_templates", "write"}

\* C3: with columns < 1 or rows < 1 the conversion of an existing image fails
\* with the invalid-dimensions error (ValueError) before any processing: no
\* image opened, no tile cropped or exported, no template built, no text file
\* written, called directly and through image_to_ascii.
C3_InvalidDimensionsFirst ==
  /\ (Done("split_grid_from_path") /\ image.exists
        /\ (call.columns < 1 \/ call.rows < 1)) =>
       (ret.kind = "raise" /\ ret.exc = "ValueError" /\ ~Processing(log)
          /\ Written = {})
  /\ (Done("image_to_ascii") /\ image.exists
        /\ (call.cols < 1 \/ (call.rows # None /\ call.rows[1] < 1))) =>
       (ret.kind = "raise" /\ ret.exc = "ValueError" /\ ~Processing(log)
          /\ Written = {})

\* The value of chars_index when the caller gives none.
DEFAULT_CHARS_INDEX == 0

\* C4: with the default chars_index, build_char_templates builds the templates
\* of the compact 10-character set, and image_to_ascii uses only its glyphs.
C4_DefaultIsCompact ==
  /\ (Done("build_char_templates") /\ call.chars_index = DEFAULT_CHARS_INDEX) =>
       (ret.kind = "ok" /\ Keys(ret.val) = CharSet(DEFAULT_CHARSET_LESS)
          /\ Len(ret.val) = 10)
  /\ (Done("image_to_ascii") /\ call.chars_index = DEFAULT_CHARS_INDEX
        /\ ret.kind = "ok" /\ ~call.color) =>
       \A i \in 1..Len(ret.val) :
         ret.val[i] \in CharSet(DEFAULT_CHARSET_LESS) \cup {NL}

\* C5: for each index the command line accepts (-1, 0, 1) build_char_templates
\* returns a mapping without raising; -1 selects the smaller (LESS) set and 1
\* the richer (MORE) set.
C5_EveryIndexBuilds ==
  (Done("build_char_templates") /\ call.chars_index \in {-1, 0, 1}) =>
    /\ ret.kind = "ok"
    /\ call.chars_index = -1 => Keys(ret.val) = CharSet(DEFAULT_CHARSET_LESS)
    /\ call.chars_index = 1 => Keys(ret.val) = CharSet(DEFAULT_CHARSET_MORE)

\* The density map of the tile of a match_tile_to_char call, and the
\* templates of its dimensions.
TileArr == _image_to_array(call.tile, call.size).val
SameShape == { i \in 1..Len(call.templates) : call.templates[i].val.shape = TileArr.shape }
ScoreOf(i) == MSE(TileArr, call.templates[i].val)
Minimal(i) == i \in SameShape /\ \A j \in SameShape : ~ScoreLess(ScoreOf(j), ScoreOf(i))

\* What match_tile_to_char returns for the template character k.
Shown(k) == IF call.replace_dot_with_block /\ k = "." THEN BLOCK ELSE k

\* C6 as stated: match_tile_to_char returns a character whose template has
\* the minimum mean squared error among the templates of the tile's
\* dimensions, with that minimum as the score.
C6_ReturnsMinimumChar ==
  (Done("match_tile_to_char") /\ ret.kind = "ok" /\ SameShape # {}) =>
    /\ \E i \in SameShape :
         call.templates[i].key = ret.val[1] /\ Minimal(i) /\ ScoreOf(i) = ret.val[2]
    /\ \A j \in SameShape : ~ScoreLess(ScoreOf(j), ret.val[2])

\* C6 amended: the returned score is the minimum mean squared error among the
\* templates of the tile's dimensions and the returned character is that of
\* a template with that score, except that with replace_dot_with_block set a
\* winning "." is returned as the full block.
C6_ReturnsMinimum ==
  (Done("match_tile_to_char") /\ ret.kind = "ok" /\ SameShape # {}) =>
    /\ \E i \in SameShape :
         Shown(call.templates[i].key) = ret.val[1] /\ Minimal(i)
           /\ ScoreOf(i) = ret.val[2]
    /\ \A j \in SameShape : ~ScoreLess(ScoreOf(j), ret.val[2])

\* The second of two templates of the tile's dimensions scores lower and wins.
C6_Witness ==
  /\ Done("match_tile_to_char") /\ ret.kind = "ok"
  /\ SameShape = {1, 2} /\ ScoreLess(ScoreOf(2), ScoreOf(1))
  /\ ret.val[1] = call.templates[2].key

\* The first template, in the dict's order, with the minimum score.
FirstMinimal == CHOOSE i \in SameShape : Minimal(i) /\ \A j \in SameShape : Minimal(j) => i <= j

\* The place of the first occurrence of ch in an alphabet.
FirstIndex(chars, ch) ==
  CHOOSE i \in 1..Len(chars) : chars[i] = ch /\ \A j \in 1..(i - 1) : chars[j] # ch

\* The characters of an alphabet whose rendered template scores least for arr.
BestChars(chars, tile_size, arr) ==
  { ch \in CharSet(chars) :
      \A other \in CharSet(chars) :
        ~ScoreLess(MSE(arr, render_char_template(other, tile_size)),
                   MSE(arr, render_char_template(ch, tile_size))) }

\* In a monochrome rendering over a predefined alphabet, every cell holds the
\* best character that comes first in the alphabet, duplicates included.
EarliestInAlphabet ==
  (Done("grid_to_ascii_monochrome") /\ ret.kind = "ok") =>
    \A r \in 1..Len(call.grid), c \in 1..Len(call.grid[1]) :
      LET chars == CharsOf(call.chars_index)[1]
          arr == _image_to_array(call.grid[r][c].image, call.tile_size).val
          best == BestChars(chars, call.tile_size, arr)
      IN /\ ret.val[r][c] \in best
         /\ \A ch \in best :
              FirstIndex(chars, ret.val[r][c]) <= FirstIndex(chars, ch)

\* C7 as stated: among templates with the same minimum score the matcher
\* returns the character that comes first in the alphabet's order, also for
\* an alphabet in which a character occurs more than once.
C7_EarliestWinsTie ==
  /\ (Done("match_tile_to_char") /\ ret.kind = "ok" /\ SameShape # {}) =>
       ret.val[1] = call.templates[FirstMinimal].key
  /\ EarliestInAlphabet

\* C7 amended: the same, except that with replace_dot_with_block set a
\* winning "." is returned as the full block.
C7_EarliestWinsTieOrBlock ==
  /\ (Done("match_tile_to_char") /\ ret.kind = "ok" /\ SameShape # {}) =>
       ret.val[1] = Shown(call.templates[FirstMinimal].key)
  /\ EarliestInAlphabet

\* Over the MORE alphabet, where "?" occurs twice, a tile is given "?", which
\* ties with every other character of its coverage.
C7_Witness ==
  /\ Done("grid_to_ascii_monochrome") /\ ret.kind = "ok"
  /\ call.chars_index = MORE
  /\ \E r \in 1..Len(ret.val) : \E c \in 1..Len(ret.val[r]) : ret.val[r][c] = "?"

\* C8: when no template has the tile's dimensions (an empty dict included)
\* match_tile_to_char returns a single space with an infinite score and does
\* not raise.
C8_NoTemplateGivesSpace ==
  (Done("match_tile_to_char")
     /\ \A i \in 1..Len(call.templates) :
          call.templates[i].val.shape # <<call.size[2], call.size[1]>>) =>
    (ret.kind = "ok" /\ ret.val = <<" ", Inf>>)

\* The text of the cell of one tile, as image_to_ascii renders it.
CellText(cell) ==
  LET glyph == match_tile_to_char(cell.image,
                 Rendered[call.chars_index, call.tile_size],
                 call.tile_size, FALSE).val[1]
      rgb == _avg_tile_color(cell.image).val
  IN IF call.color
     THEN <<ESC, "[", "3", "8", ";", "2", ";">> \o Dec(rgb[1]) \o <<";">>
            \o Dec(rgb[2]) \o <<";">> \o Dec(rgb[3]) \o <<"m", glyph>>
            \o <<ESC, "[", "0", "m">>
     ELSE <<glyph>>

\* C9: the text image_to_ascii returns has one line per grid row, separated
\* by single newlines with none after the last, and line r is the cells of
\* the tiles (r, 1), (r, 2), ... of row r in that order.
C9_RowMajorText ==
  (Done("image_to_ascii") /\ ret.kind = "ok") =>
    LET lines == TextLines(ret.val)
    IN /\ Len(lines) = UsedRows
       /\ \A r \in 1..UsedRows :
            lines[r] = Flatten([k \in 1..call.cols |-> CellText(UsedGrid[r][k])])

\* A plain 2 x 3 rendering whose cells differ within a row and between rows.
C9_Witness ==
  /\ Done("image_to_ascii") /\ ret.kind = "ok" /\ ~call.color
  /\ UsedRows = 2 /\ call.cols = 3
  /\ TextLines(ret.val)[1] # TextLines(ret.val)[2]
  /\ TextLines(ret.val)[1][1] # TextLines(ret.val)[1][2]

\* The cell of one tile in colour mode, with the given reset sequence.
ColorCellText(cell, reset) ==
  LET rgb == _avg_tile_color(cell.image).val
      glyph == IF call.use_block THEN BLOCK
               ELSE IF call.use_background THEN " "
               ELSE match_tile_to_char(cell.image,
                      Rendered[call.chars_index, call.tile_size],
                      call.tile_size, FALSE).val[1]
  IN <<ESC, "[", IF call.use_background THEN "4" ELSE "3", "8", ";", "2", ";">>
       \o Dec(rgb[1]) \o <<";">> \o Dec(rgb[2]) \o <<";">> \o Dec(rgb[3])
       \o <<"m", glyph>> \o reset

\* Every line of a grid_to_ascii_color call is its cells, each closed by reset.
ColorLines(reset) ==
  (Done("grid_to_ascii_color") /\ ret.kind = "ok") =>
    /\ Len(ret.val) = Len(call.grid)
    /\ \A r \in 1..Len(call.grid) :
         ret.val[r] = Flatten([k \in 1..Len(call.grid[r]) |->
                        ColorCellText(call.grid[r][k], reset)])

\* Encoding (255, 0, 0) as foreground gives ESC[38;2;255;0;0m.
RedForeground ==
  (Done("_ansi_fg_truecolor") /\ call.rgb = <<255, 0, 0>>) =>
    ret.val = <<ESC, "[", "3", "8", ";", "2", ";", "2", "5", "5", ";", "0", ";",
                "0", "m">>

\* C10 as stated: in colour mode every cell is one truecolor escape of the
\* tile's sampled colour (38 foreground, 48 background), one glyph, then the
\* one reset ESC[0m, for every use_background and use_block; (255, 0, 0) as
\* foreground is ESC[38;2;255;0;0m.
C10_CellsResetByEsc0m ==
  /\ ColorLines(<<ESC, "[", "0", "m">>)
  /\ RedForeground

\* C10 amended: every cell is one truecolor escape, one glyph, then one copy
\* of the reset argument, which is ESC[0m unless the caller passes another
\* (image_to_ascii passes none).
C10_CellsResetByArgument ==
  /\ ColorLines(call.reset)
  /\ RedForeground
  /\ (Done("image_to_ascii") /\ ret.kind = "ok" /\ call.color) =>
       \A r \in 1..UsedRows :
         TextLines(ret.val)[r]
           = Flatten([k \in 1..call.cols |-> CellText(UsedGrid[r][k])])

\* A background-and-block rendering of two cells of different colours.
C10_Witness ==
  /\ Done("grid_to_ascii_color") /\ ret.kind = "ok"
  /\ call.use_background /\ call.use_block /\ call.reset = RESET
  /\ Len(call.grid) = 1 /\ Len(call.grid[1]) = 2
  /\ _avg_tile_color(call.grid[1][1].image).val
       # _avg_tile_color(call.grid[1][2].image).val

\* An integer nearest to n / d, for d > 0 (either neighbour of a half).
Nearest(q, n, d) == 2 * (q * d - n) <= d /\ 2 * (n - q * d) <= d

\* rows is round((h * cols * tile_w) / (w * tile_h)), raised to at least 1.
AspectRows(rows, w, h, cols, tile_size) ==
  LET n == h * cols * tile_size[1]
      d == w * tile_size[2]
  IN \E q \in (n \div d)..(n \div d + 1) :
       Nearest(q, n, d) /\ rows = IF q < 1 THEN 1 ELSE q

\* With aspect-lock on the rows used for the grid are the rounded quotient
\* raised to 1, and a 200 x 100 image at 80 columns of 8 x 16 tiles gets
\* `example' rows.
AspectLockRows(example) ==
  /\ (Done("rows") /\ call.lock_aspect) =>
       /\ ret.val[1] >= 1
       /\ AspectRows(ret.val[1], call.w, call.h, call.cols, call.tile_size)
       /\ (call.w = 200 /\ call.h = 100 /\ call.cols = 80
             /\ call.tile_size = <<8, 16>>) => ret.val[1] = example
  /\ (Done("image_to_ascii") /\ call.lock_aspect /\ ret.kind = "ok") =>
       AspectRows(Len(TextLines(ret.val)), image.im.w, image.im.h, call.cols,
                  call.tile_size)

\* C11 as stated: with aspect-lock on, the rows used for the grid are
\* round((imageHeight * columns * tileWidth) / (imageWidth * tileHeight))
\* raised to a minimum of 1, hence >= 1, for all positive image and tile
\* dimensions and every columns; a 200 x 100 image at 80 columns of 8 x 16
\* tiles gets 32 rows.
C11_AspectLockRows32 == AspectLockRows(32)

\* C11 amended: the same, except that the 200 x 100 image at 80 columns of
\* 8 x 16 tiles gets round(64000 / 3200) = 20 rows.
C11_AspectLockRows == AspectLockRows(20)

\* The rows of the 200 x 100 image at 80 columns of 8 x 16 tiles.
C11_Witness ==
  /\ Done("rows") /\ call.lock_aspect
  /\ call.w = 200 /\ call.h = 100 /\ call.cols = 80 /\ call.tile_size = <<8, 16>>
  /\ ret.val[1] = 20

\* The name of the file of tile (r, c), both 1-based, under the directory.
ExportName(r, c) ==
  OUT_DIR \o <<"/", "t", "i", "l", "e", "_", "r">> \o Dec(r) \o <<"c">> \o Dec(c)
    \o <<".", "p", "n", "g">>

\* One file per tile of the grid, each holding its tile, and no other.
OneFilePerTile(grid) ==
  /\ \A r \in 1..Len(grid) : \A c \in 1..Len(grid[r]) :
       [path |-> ExportName(r, c), data |-> Png(grid[r][c].image)] \in disk
  /\ Cardinality(Written) = Len(Flatten(grid))

\* C12: with the tile-export flag set and nothing in the way of the writes,
\* split_grid_from_path returns what it returns with the flag clear, and so
\* does image_to_ascii; the export adds one file tile_r<row+1>c<col+1>.png
\* per tile under the output directory, which it creates.
C12_ExportChangesNothing ==
  /\ (Done("split_grid_from_path") /\ call.save_image /\ call.obstacle = None) =>
       LET off == split_grid_from_path(image, call.columns, call.rows, FALSE,
                                       <<>>, {})
       IN /\ ret.kind = off.kind
          /\ ret.kind = "ok" =>
               /\ ret.val = off.val
               /\ OneFilePerTile(ret.val)
               /\ \E i \in 1..Len(log) : log[i] = <<"makedirs", OUT_DIR>>
  /\ (Done("image_to_ascii") /\ call.export_tiles /\ call.obstacle = None) =>
       LET off == image_to_ascii(image, call.lock_aspect, call.cols, call.rows,
                                 call.color, FALSE, call.out_txt_path,
                                 call.tile_size, call.chars_index, <<>>, {})
       IN /\ ret.kind = off.kind
          /\ ret.kind = "ok" => ret.val = off.val

\* The place of the write that failed, if one did.
Failed == { i \in 1..Len(log) : log[i][1] \in {"save_failed", "write_failed"} }

\* The tile files an export of the grid of this call writes when nothing is
\* in its way.
FreeExport ==
  split_grid_from_path(image, call.cols, UsedRows, TRUE, <<>>, {})

\* C13: a write that fails during the tile export or the text-file write
\* ends image_to_ascii with the error raised: nothing is done after it (it
\* is neither swallowed nor retried), the tile files written before it stay
\* on disk, and after a failed tile export no text is returned or written.
C13_WriteFailureSurfaces ==
  Done("image_to_ascii") =>
    /\ \A i \in Failed :
         /\ i = Len(log)
         /\ ret.kind = "raise" /\ ret.exc \in {"IsADirectoryError", "SystemError"}
         /\ \A j \in 1..(i - 1) :
              log[j][1] = "save" => \E f \in Written : f.path = log[j][2]
         /\ log[i][1] = "save_failed" =>
              \A f \in Written : call.out_txt_path # Some(f.path)
    /\ (call.obstacle # None /\ call.export_tiles /\ image.exists
          /\ call.cols >= 1 /\ FreeExport.kind = "ok"
          /\ \E i \in 1..Len(FreeExport.log) :
               FreeExport.log[i] = <<"save", call.obstacle[1]>>) =>
         (ret.kind = "raise" /\ Failed # {})
    /\ (call.obstacle # None /\ call.obstacle = call.out_txt_path
          /\ ~call.export_tiles /\ image.exists
          /\ image_to_ascii(image, call.lock_aspect, call.cols, call.rows,
                            call.color, FALSE, None, call.tile_size,
                            call.chars_index, <<>>, {}).kind = "ok") =>
         (ret.kind = "raise" /\ Failed # {})

\* The export fails at the second tile with the first one written and a text
\* file asked for.
C13_Witness ==
  /\ Done("image_to_ascii") /\ call.export_tiles
  /\ call.obstacle = Some(ExportName(1, 2)) /\ call.out_txt_path # None
  /\ ret.kind = "raise" /\ ret.exc = "IsADirectoryError"
  /\ \E f \in Written : f.path = ExportName(1, 1)

\* The same input: the same arguments and the same image bytes at the path.
SameInput(a, b) ==
  /\ a.call = b.call
  /\ a.image.exists = b.image.exists
  /\ a.image.exists => a.image.im = b.image.im

\* C14: two calls of image_to_ascii with the same image and the same
\* configuration return the same text (or raise the same error), whatever
\* calls were made in between; a call returns what it returns with none of
\* the files the earlier calls wrote, so nothing one call writes is read by
\* a later one.
C14_PureCore ==
  /\ \A i \in 1..Len(hist), j \in 1..Len(hist) :
       (i < j /\ SameInput(hist[i], hist[j])) => hist[j].ret = hist[i].ret
  /\ \A j \in 1..Len(hist) :
       hist[j].ret = Outcome(Converted(hist[j].call, hist[j].image, {}))

\* The same conversion before and after a different one that exported tiles
\* and wrote a text file.
C14_Witness ==
  /\ Len(hist) = 3
  /\ SameInput(hist[1], hist[3]) /\ hist[1].ret.kind = "ok"
  /\ hist[1].call.out_txt_path # None
  /\ hist[2].call.cols # hist[1].call.cols
  /\ hist[2].call.export_tiles /\ hist[2].call.out_txt_path # None
  /\ hist[2].ret.kind = "ok"

\* The size of band k (0-based) of n bands cut from a length: the remainder's
\* pixels go one each to the first bands.
BandSize(length, n, k) == length \div n + (IF k < length % n THEN 1 ELSE 0)

\* C15: in the grid split_grid_from_path returns, column c (0-based) is
\* W div columns + 1 wide when c < W mod columns and W div columns wide
\* otherwise, and row r likewise with H and rows; so widths and heights do
\* not increase with the index and differ by at most 1.
C15_RemainderFirst ==
  (Done("split_grid_from_path") /\ ret.kind = "ok") =>
    LET grid == ret.val
        R == 1..call.rows
        C == 1..call.columns
    IN /\ \A r \in R, c \in C :
            /\ grid[r][c].box[3] = BandSize(image.im.w, call.columns, c - 1)
            /\ grid[r][c].box[4] = BandSize(image.im.h, call.rows, r - 1)
            /\ grid[r][c].image.w = grid[r][c].box[3]
            /\ grid[r][c].image.h = grid[r][c].box[4]
       /\ \A r \in R, c1 \in C, c2 \in C :
            c1 < c2 => /\ grid[r][c1].box[3] >= grid[r][c2].box[3]
                       /\ grid[r][c1].box[3] - grid[r][c2].box[3] <= 1
       /\ \A c \in C, r1 \in R, r2 \in R :
            r1 < r2 => /\ grid[r1][c].box[4] >= grid[r2][c].box[4]
                       /\ grid[r1][c].box[4] - grid[r2][c].box[4] <= 1

\* A 3 x 2 image split into 2 columns and 3 rows: widths 2, 1 and heights
\* 1, 1, 0.
C15_Witness ==
  /\ Done("split_grid_from_path") /\ ret.kind = "ok" /\ ~call.save_image
  /\ image.im.w = 3 /\ image.im.h = 2 /\ call.columns = 2 /\ call.rows = 3
  /\ ret.val[1][1].box[3] = 2 /\ ret.val[1][2].box[3] = 1
  /\ ret.val[2][1].box[4] = 1 /\ ret.val[3][1].box[4] = 0

\* The characters the preview holds.
PreviewText == [i \in 1..Len(gui.preview) |-> gui.preview[i].ch]

\* C16: when Render is triggered again while an earlier render thread runs,
\* the preview never holds characters of two renders mixed, and once every
\* render thread has finished rendering the preview is the complete output
\* of exactly one of them.
C16_PreviewOfOneRender ==
  /\ \A i \in 1..Len(gui.preview), j \in 1..Len(gui.preview) :
       gui.preview[i].by = gui.preview[j].by
  /\ (gui.threads # <<>>
        /\ \A t \in 1..Len(gui.threads) : gui.threads[t].pc = "rendered") =>
       \E t \in 1..Len(gui.threads) : PreviewText = gui.threads[t].out

\* The bytes of the parameters of an escape sequence.
AnsiParams == {"0", "1", "2", "3", "4", "5", "6", "7", "8", "9", ";"}

\* A line without its ANSI escape sequences: ESC, "[", the parameters and
\* the final byte of each are dropped.  at is "text" outside a sequence,
\* "esc" after ESC and "csi" among the parameters.
RECURSIVE Stripped(_, _)
Stripped(s, at) ==
  IF s = <<>> THEN <<>>
  ELSE IF at = "esc" THEN Stripped(Tail(s), IF Head(s) = "[" THEN "csi" ELSE "text")
  ELSE IF at = "csi"
  THEN Stripped(Tail(s), IF Head(s) \in AnsiParams THEN "csi" ELSE "text")
  ELSE IF Head(s) = ESC THEN Stripped(Tail(s), "esc")
  ELSE <<Head(s)>> \o Stripped(Tail(s), "text")

StripAnsi(line) == Stripped(line, "text")

\* The lines grid_to_ascii_monochrome gives for the grid, templates and tile
\* size of this call.
MonochromeOfCall ==
  grid_to_ascii_monochrome(call.grid,
    build_char_templates(call.chars_index, call.tile_size, <<>>, {}).val,
    call.tile_size, <<>>, {})

====
